---- MODULE Spec2Model ----
(***************************************************************************)
(* The concurrent target-monitoring engine of ur-ipmon: the polling        *)
(* threads (monitor_ip_thread), the engine life cycle (init_monitor,       *)
(* start_monitoring, stop_monitoring, free_monitor), the configuration     *)
(* loader (load_config, config_has_changed, reload_config_if_changed),     *)
(* the reload loop of function_ipmon_single and the signal handler.        *)
(*                                                                         *)
(* Time is counted in seconds.  sleep(n) is a lower bound: a sleeper       *)
(* cannot continue before n ticks have passed; a polling thread may be     *)
(* scheduled any time after that, the reload loop within the same second   *)
(* (see Tick).  Time stamps are only ever compared with each other, so     *)
(* they are kept up to their order (Rank); the two time stamps of the      *)
(* reload loop are only ever subtracted from each other and compared with  *)
(* CONFIG_CHECK_INTERVAL, so they are kept as ages that saturate there.    *)
(* The fields k, base and ip of a thread and hist, rep and asleep of the    *)
(* reload loop are history: they record what happened and steer nothing.   *)
(***************************************************************************)
EXTENDS Integers, Sequences, FiniteSets, TLC

\* ------------------------------------------------------------- bounds
\* external modifications of the configuration file during one run
MaxWrites == 1
\* consecutive failed probes the environment produces for one record
MaxFailures == 3
\* addresses malloc can hand out for a Monitor and its ips array
MaxAddrs == 2

\* -------------------------------------------------- program constants
DEFAULT_INTERVAL == 5
DEFAULT_TIMEOUT == 1000
CONFIG_CHECK_INTERVAL == 5
FAILED_THRESHOLD == 3
DISPLAY_INTERVAL == 1
STOP_GRACE == 1

\* An optional value: a JSON member or a pointer that may be absent (NULL).
None == <<>>
Some(v) == <<v>>

Min(a, b) == IF a < b THEN a ELSE b

\* --------------------------------------------- the configuration file
\* A parsed JSON document: settings is None or Some of a record of two
\* optional numbers; ip_addresses is None (no such array) or Some of a
\* sequence of items.  An item is a string, an object or something else.
StrItem(ip) ==
    [kind |-> "string", ip |-> Some(ip), interval |-> None, timeout |-> None, active |-> None]
ObjItem(ip, iv, to, act) ==
    [kind |-> "object", ip |-> ip, interval |-> iv, timeout |-> to, active |-> act]
Doc(settings, ips) == [parses |-> TRUE, settings |-> settings, ip_addresses |-> ips]
BadDoc == [parses |-> FALSE, settings |-> None, ip_addresses |-> None]

\* The documents the external writer puts into the configuration file.
DocAB == Doc(None, Some(<<ObjItem(Some("A"), Some(2), Some(1000), None),
                          ObjItem(Some("B"), Some(1), Some(1000), Some(FALSE))>>))
DocOff == Doc(None, Some(<<ObjItem(Some("B"), Some(1), Some(1000), Some(FALSE)),
                           ObjItem(Some("A"), Some(2), Some(1000), Some(FALSE))>>))
DocEmpty == Doc(None, Some(<<>>))
\* A document with two active targets.
DocTwo == Doc(None, Some(<<ObjItem(Some("A"), Some(2), Some(1000), None),
                           ObjItem(Some("B"), Some(1), Some(1000), None)>>))
Documents == {BadDoc, DocAB, DocOff, DocEmpty}

\* The documents load_config is examined with: every list of at most MaxItems
\* items, under each of three "settings" objects.
MaxItems == 2
OtherItem ==
    [kind |-> "other", ip |-> None, interval |-> None, timeout |-> None, active |-> None]
Settings(di, dt) == Some([default_interval |-> di, default_timeout |-> dt])
LoadItems ==
    {StrItem("A"), StrItem("B"),
     ObjItem(Some("A"), Some(0), Some(0), None),
     ObjItem(Some("B"), Some(-1), None, Some(FALSE)),
     ObjItem(None, Some(2), Some(1000), None),
     OtherItem}
LoadSettings == {None, Settings(Some(0), Some(0)), Settings(None, Some(500))}
LoadDocuments ==
    {BadDoc} \cup {Doc(st, None) : st \in LoadSettings}
        \cup {Doc(st, Some(items)) :
                 st \in LoadSettings,
                 items \in UNION {[1..n -> LoadItems] : n \in 0..MaxItems}}

\* load_config giving an item that omits a value the built-in default instead
\* of the registry's.
IPConfigOfBuiltin(item, default_interval, default_timeout) ==
    IF item.kind = "string"
    THEN Some([ip_address |-> item.ip[1], interval |-> DEFAULT_INTERVAL,
               timeout |-> DEFAULT_TIMEOUT, is_active |-> TRUE])
    ELSE IF item.kind = "object"
    THEN IF item.ip = None
         THEN None
         ELSE Some([ip_address |-> item.ip[1],
                    interval |-> IF item.interval # None THEN item.interval[1]
                                 ELSE DEFAULT_INTERVAL,
                    timeout |-> IF item.timeout # None THEN item.timeout[1]
                                ELSE DEFAULT_TIMEOUT,
                    is_active |-> IF item.active # None THEN item.active[1] ELSE TRUE])
    ELSE None

\* config.c:125-187: the IPConfig of one item, None where load_config gives up.
IPConfigOf(item, default_interval, default_timeout) ==
    IF item.kind = "string"
    THEN Some([ip_address |-> item.ip[1], interval |-> default_interval,
               timeout |-> default_timeout, is_active |-> TRUE])
    ELSE IF item.kind = "object"
    THEN IF item.ip = None
         THEN None
         ELSE Some([ip_address |-> item.ip[1],
                    interval |-> IF item.interval # None THEN item.interval[1]
                                 ELSE default_interval,
                    timeout |-> IF item.timeout # None THEN item.timeout[1]
                                ELSE default_timeout,
                    is_active |-> IF item.active # None THEN item.active[1] ELSE TRUE])
    ELSE None

\* config.c:49-192 without the time stamp: the Config load_config builds from
\* the document it read, None where it returns NULL.
ParseConfig(doc) ==
    IF ~doc.parses THEN None
    ELSE LET di == IF doc.settings # None /\ doc.settings[1].default_interval # None
                   THEN doc.settings[1].default_interval[1] ELSE DEFAULT_INTERVAL
             dt == IF doc.settings # None /\ doc.settings[1].default_timeout # None
                   THEN doc.settings[1].default_timeout[1] ELSE DEFAULT_TIMEOUT
         IN IF doc.ip_addresses = None THEN None
            ELSE LET items == doc.ip_addresses[1]
                     cfgs == [i \in 1..Len(items) |-> IPConfigOf(items[i], di, dt)]
                 IN IF \E i \in 1..Len(items) : cfgs[i] = None THEN None
                    ELSE Some([ips |-> [i \in 1..Len(items) |-> cfgs[i][1]],
                               default_interval |-> di, default_timeout |-> dt])

\* The longest target list among the documents.
MaxTargets ==
    LET lens == {Len(d.ip_addresses[1]) : d \in {x \in Documents : x.ip_addresses # None}}
    IN CHOOSE n \in lens : \A m \in lens : m <= n
\* Engines one run can create: the first one and one per detected change.
MaxGens == MaxWrites + 1

Addrs == 1..MaxAddrs
Gens == 1..MaxGens
Idx == 1..MaxTargets
\* check_ip returns a round-trip time >= 0 or -1.
ProbeResults == {-1, 0}

VARIABLES
    file,       \* the configuration file: exists, doc (its content), mtime
    writes,     \* how many times the external writer has touched the file
    now,        \* time(NULL)
    g_config,   \* None (NULL) or Some(Config); during start-up the local `config`
    g_monitor,  \* 0 (NULL) or the address of a Monitor, possibly a freed one
    heap,       \* address -> the Monitor stored there: live, gen, running, ips
    gens,       \* how many engines init_monitor has built
    thr,        \* engine, index -> the polling thread start_monitoring created
    co,         \* the task of function_ipmon_single: pc, locals of the reload
                \* loop, and whether the Task Manager has it paused
    sig,        \* the signal handler: pc and the rest of its sleep
    proc,       \* "running", or how the process exited
    tm          \* the Task Manager: the tasks it created, in the order of creation

vars == <<file, writes, now, g_config, g_monitor, heap, gens, thr, co, sig, proc, tm>>

\* -------------------------------------------------------- time stamps
\* Time stamps are only compared, so each is kept as its rank among the
\* time stamps in use.
Rank(S, x) == Cardinality({y \in S : y < x})
Stamps(f, c, n) ==
    (IF f.exists THEN {f.mtime} ELSE {})
        \cup (IF c # None THEN {c[1].last_modified} ELSE {}) \cup {n}
RestampFile(f, S) == IF f.exists THEN [f EXCEPT !.mtime = Rank(S, @)] ELSE f
RestampConfig(c, S) ==
    IF c = None THEN None ELSE Some([c[1] EXCEPT !.last_modified = Rank(S, @)])
\* The three time-stamped variables after a step that leaves them f, c and n.
SetStamps(f, c, n) ==
    LET S == Stamps(f, c, n)
    IN /\ file' = RestampFile(f, S)
       /\ g_config' = RestampConfig(c, S)
       /\ now' = Rank(S, n)

\* ------------------------------------------------------------- memory
\* The intervals the documents give: what a read of a freed interval may yield.
Intervals ==
    UNION {{ParseConfig(d)[1].ips[i].interval : i \in 1..Len(ParseConfig(d)[1].ips)} :
           d \in {x \in Documents : ParseConfig(x) # None}}
FreeCell == [live |-> FALSE, gen |-> 0, running |-> FALSE, ips |-> <<>>]
NoThread ==
    [pc |-> "none", mon |-> 0, n |-> 0, ip |-> "", timer |-> 0, rt |-> -1, k |-> 0,
     base |-> "UNKNOWN", log |-> "none"]

\* init_monitor giving every record the default interval.
NewMonitoredIPDefaultInterval(c) ==
    [ip_address |-> c.ip_address, status |-> "UNKNOWN", last_checked |-> 0,
     response_time_ms |-> -1, failures |-> 0, is_active |-> c.is_active,
     interval |-> DEFAULT_INTERVAL, timeout |-> c.timeout]

\* monitor.h:19-28 as init_monitor fills it (config.c:434-441).
NewMonitoredIP(c) ==
    [ip_address |-> c.ip_address, status |-> "UNKNOWN", last_checked |-> 0,
     response_time_ms |-> -1, failures |-> 0, is_active |-> c.is_active,
     interval |-> c.interval, timeout |-> c.timeout]

\* The thread's pointers: args->monitor is address mon, args->ip is element i
\* of the array of n elements that belonged to it.  After free_monitor they
\* dangle: the Monitor's memory may be free or hold a later Monitor, and the
\* element is that Monitor's element i when its array has the same size (the
\* allocator hands the freed block out again) and freed memory otherwise.
MonLive(t) == heap[t.mon].live
RecValid(t) == heap[t.mon].live /\ Len(heap[t.mon].ips) = t.n
\* What a read of monitor->running / ip->is_active / ip->interval can yield.
RunningRead(t) == IF MonLive(t) THEN {heap[t.mon].running} ELSE BOOLEAN
ActiveRead(t, i) == IF RecValid(t) THEN {heap[t.mon].ips[i].is_active} ELSE BOOLEAN
IntervalRead(t, i) == IF RecValid(t) THEN {heap[t.mon].ips[i].interval} ELSE Intervals
\* What a read of ip->status and of ip->failures can yield.
StatusRead(t, i) ==
    IF RecValid(t) THEN {heap[t.mon].ips[i].status} ELSE {"UNKNOWN", "UP", "DOWN"}
FailuresRead(t, i) ==
    IF RecValid(t) THEN {heap[t.mon].ips[i].failures} ELSE {0, FAILED_THRESHOLD}

\* The state at the start of function_ipmon_single, with one of docs in the
\* configuration file.
InitWith(docs) ==
    /\ file \in {[exists |-> TRUE, doc |-> d, mtime |-> 0] : d \in docs}
    /\ writes = 0
    /\ now = 0
    /\ g_config = None
    /\ g_monitor = 0
    /\ heap = [a \in Addrs |-> FreeCell]
    /\ gens = 0
    /\ thr = [g \in Gens |-> [i \in Idx |-> NoThread]]
    /\ co = [pc |-> "load_read", boot |-> TRUE, timer |-> 0, di |-> 0,
             last_age |-> 0, cur_age |-> 0, doc |-> None, ret |-> "none",
             hist |-> "none", rep |-> "none", asleep |-> {},
             paused |-> FALSE]
    /\ sig = [pc |-> "idle", timer |-> 0]
    /\ proc = "running"
    /\ tm = <<>>

Init == InitWith(Documents)

\* --------------------------------------------------- monitor_ip_thread
\* What args->ip designates when it designates an element.
Target(t, i) == heap[t.mon].ips[i]
\* A write through args->ip that leaves the element as r: it changes element
\* i of the Monitor at mon when the pointer designates one, and lands in freed
\* memory otherwise.
WriteRec(t, i, r) ==
    IF RecValid(t) THEN heap' = [heap EXCEPT ![t.mon].ips[i] = r]
    ELSE UNCHANGED heap

SetThread(g, i, t) == thr' = [thr EXCEPT ![g][i] = t]

\* config.c:406-407: sleep(ip->interval) returns, not before the interval is over.
SleepOver(timer) == timer = 0

\* The loop condition with the active flag inverted.
LoopConditionInverted(r, act) == r /\ ~act

\* config.c:379, the loop condition.
LoopCondition(r, act) == r /\ act

\* config.c:377-379 and 406-409: the thread starts, or its sleep returns, and
\* it tests the loop condition.
ThreadTest(g, i) ==
    LET t == thr[g][i] IN
    /\ proc = "running"
    /\ t.pc = "sleep"
    /\ SleepOver(t.timer)
    /\ \E r \in RunningRead(t), act \in ActiveRead(t, i) :
          SetThread(g, i, [t EXCEPT !.pc = IF LoopCondition(r, act) THEN "probe" ELSE "done",
                                       !.log = "none"])
    /\ UNCHANGED <<file, writes, now, g_config, g_monitor, heap, gens, co, sig, proc>>
    /\ UNCHANGED tm

\* config.c:381: check_ip returns.  k and base are the history of this task:
\* its consecutive failed probes, and the status before them.
ProbeReturn(g, i) ==
    LET t == thr[g][i] IN
    /\ proc = "running"
    /\ t.pc = "probe"
    /\ \E rt \in ProbeResults :
          /\ rt < 0 => t.k < MaxFailures
          /\ SetThread(g, i, [t EXCEPT !.pc = "w_result", !.rt = rt,
                                       !.k = IF rt >= 0 THEN 0 ELSE @ + 1,
                                       !.base = IF rt >= 0 THEN "UP" ELSE @])
    /\ UNCHANGED <<file, writes, now, g_config, g_monitor, heap, gens, co, sig, proc>>
    /\ UNCHANGED tm

\* config.c:384-385: ip->last_checked = time(NULL), a time later than 0, and
\* ip->response_time_ms = response_time.
SetResult(r, rt) == [r EXCEPT !.last_checked = 1, !.response_time_ms = rt]
\* config.c:387, the branch on the probe's result.
IsSuccess(rt) == rt >= 0
WriteResult(g, i) ==
    LET t == thr[g][i] IN
    /\ proc = "running"
    /\ t.pc = "w_result"
    /\ WriteRec(t, i, SetResult(Target(t, i), t.rt))
    /\ SetThread(g, i, [t EXCEPT !.pc = IF IsSuccess(t.rt) THEN "w_up" ELSE "w_inc",
                                 !.rt = -1])
    /\ UNCHANGED <<file, writes, now, g_config, g_monitor, gens, co, sig, proc>>
    /\ UNCHANGED tm

\* config.c:388-391: the "is UP" message is logged when the status read is
\* not UP.
LogsUp(status) == status # "UP"
\* config.c:388-392: the test, the message, and ip->status = STATUS_UP.  The
\* field log of the task keeps the message of its latest iteration.
SetStatusUp(r) == [r EXCEPT !.status = "UP"]
WriteStatusUp(g, i) ==
    LET t == thr[g][i] IN
    /\ proc = "running"
    /\ t.pc = "w_up"
    /\ WriteRec(t, i, SetStatusUp(Target(t, i)))
    /\ \E st \in StatusRead(t, i) :
          SetThread(g, i, [t EXCEPT !.pc = "w_reset",
                                       !.log = IF LogsUp(st) THEN "up" ELSE "none"])
    /\ UNCHANGED <<file, writes, now, g_config, g_monitor, gens, co, sig, proc>>
    /\ UNCHANGED tm

\* A success that resets the status together with the failure counter.
ResetFailuresAndStatus(r) == [r EXCEPT !.failures = 0, !.status = "UNKNOWN"]

\* config.c:393 and 406: ip->failures = 0, then sleep(ip->interval).
ResetFailures(r) == [r EXCEPT !.failures = 0]
WriteFailuresReset(g, i) ==
    LET t == thr[g][i] IN
    /\ proc = "running"
    /\ t.pc = "w_reset"
    /\ WriteRec(t, i, ResetFailures(Target(t, i)))
    /\ \E iv \in IntervalRead(t, i) :
          SetThread(g, i, [t EXCEPT !.pc = "sleep", !.timer = iv])
    /\ UNCHANGED <<file, writes, now, g_config, g_monitor, gens, co, sig, proc>>
    /\ UNCHANGED tm

\* config.c:395: ip->failures++.
IncFailures(r) == [r EXCEPT !.failures = @ + 1]
WriteFailuresInc(g, i) ==
    LET t == thr[g][i] IN
    /\ proc = "running"
    /\ t.pc = "w_inc"
    /\ WriteRec(t, i, IncFailures(Target(t, i)))
    /\ SetThread(g, i, [t EXCEPT !.pc = "w_down"])
    /\ UNCHANGED <<file, writes, now, g_config, g_monitor, gens, co, sig, proc>>
    /\ UNCHANGED tm

\* config.c:396-400: the "is DOWN" message is logged when the counter read
\* has reached the threshold and the status read is not DOWN.
LogsDown(failures, status) == failures >= FAILED_THRESHOLD /\ status # "DOWN"
\* config.c:396-402 and 406: the threshold, then sleep(ip->interval).
ApplyThreshold(r) ==
    IF r.failures >= FAILED_THRESHOLD THEN [r EXCEPT !.status = "DOWN"] ELSE r
WriteStatusDown(g, i) ==
    LET t == thr[g][i] IN
    /\ proc = "running"
    /\ t.pc = "w_down"
    /\ WriteRec(t, i, ApplyThreshold(Target(t, i)))
    /\ \E iv \in IntervalRead(t, i), f \in FailuresRead(t, i), st \in StatusRead(t, i) :
          SetThread(g, i, [t EXCEPT !.pc = "sleep", !.timer = iv,
                                       !.log = IF LogsDown(f, st) THEN "down" ELSE "none"])
    /\ UNCHANGED <<file, writes, now, g_config, g_monitor, gens, co, sig, proc>>
    /\ UNCHANGED tm

ThreadStep(g, i) ==
    \/ ThreadTest(g, i)
    \/ ProbeReturn(g, i)
    \/ WriteResult(g, i)
    \/ WriteStatusUp(g, i)
    \/ WriteFailuresReset(g, i)
    \/ WriteFailuresInc(g, i)
    \/ WriteStatusDown(g, i)

\* ---------------------------------------------------------- load_config
\* exit(): the process and its memory are gone; `how` names the call of exit.
Exit(how) ==
    /\ proc' = how
    /\ heap' = [a \in Addrs |-> FreeCell]
    /\ thr' = [g \in Gens |-> [i \in Idx |-> NoThread]]
    /\ co' = [pc |-> "exited", boot |-> FALSE, timer |-> 0, di |-> 0,
              last_age |-> 0, cur_age |-> 0, doc |-> None, ret |-> "none",
              hist |-> "none", rep |-> "none", asleep |-> {},
             paused |-> FALSE]
    /\ sig' = [pc |-> "exit", timer |-> 0]
    /\ g_monitor' = 0
    /\ g_config' = None
    /\ gens' = 0
    /\ writes' = 0
    /\ file' = [exists |-> FALSE, doc |-> BadDoc, mtime |-> 0]
    /\ now' = 0

\* ur-ipmon-spec.c:110-112: last_config_check = current_time; sleep(display_interval).
EndOfIteration(c) ==
    [c EXCEPT !.pc = "sleep", !.timer = DISPLAY_INTERVAL, !.last_age = c.cur_age,
              !.cur_age = 0]

\* LoadFailed with the old configuration released before the new one is known
\* to have loaded.
LoadFailedFreesOld ==
    IF co.boot
    THEN Exit("exit_load")
    ELSE /\ co' = [co EXCEPT !.pc = "reload_ret", !.ret = "failed", !.doc = None]
         /\ g_config' = None
         /\ UNCHANGED <<file, writes, now, g_monitor, heap, gens, thr, sig, proc>>

\* A failed reload that stores the file's modification time as the version
\* marker of the registry it keeps.
LoadFailedMarks ==
    IF co.boot
    THEN Exit("exit_load")
    ELSE /\ co' = [co EXCEPT !.pc = "reload_ret", !.ret = "failed", !.doc = None]
         /\ g_config' = IF file.exists
                         THEN Some([g_config[1] EXCEPT !.last_modified = file.mtime])
                         ELSE g_config
         /\ UNCHANGED <<file, writes, now, g_monitor, heap, gens, thr, sig, proc>>

\* load_config returned NULL: ur-ipmon-spec.c:62-65 exits at start-up;
\* config.c:245-248 leaves *config alone and returns false in a reload.
LoadFailed ==
    IF co.boot
    THEN Exit("exit_load")
    ELSE /\ co' = [co EXCEPT !.pc = "reload_ret", !.ret = "failed", !.doc = None]
         /\ UNCHANGED <<file, writes, now, g_config, g_monitor, heap, gens, thr,
                        sig, proc>>

\* config.c:19-61: open, read and parse the file.
CanRead(f) == f.exists /\ f.doc.parses
LoadRead ==
    /\ proc = "running"
    /\ co.pc = "load_read"
    /\ \E mem \in BOOLEAN :
          IF CanRead(file) /\ mem
          THEN /\ co' = [co EXCEPT !.pc = "load_stat", !.doc = Some(file.doc)]
               /\ UNCHANGED <<file, writes, now, g_config, g_monitor, heap, gens, thr,
                              sig, proc>>
          ELSE LoadFailed
    /\ UNCHANGED tm

\* config.c:78-85: the version marker load_config stores.
LastModified(f, n) == IF f.exists THEN f.mtime ELSE n

\* config.c:250-252: the Config that *config designates after a successful load.
Replace(old, new) == new

\* config.c:63-192: stat the file, build the Config from the document read,
\* return it; then ur-ipmon-spec.c:61 (start-up) or config.c:250-255 (reload).
LoadStat ==
    /\ proc = "running"
    /\ co.pc = "load_stat"
    /\ \E mem \in BOOLEAN :
          LET parsed == ParseConfig(co.doc[1]) IN
          IF parsed # None /\ mem
          THEN LET new == [ips |-> parsed[1].ips,
                           default_interval |-> parsed[1].default_interval,
                           default_timeout |-> parsed[1].default_timeout,
                           last_modified |-> LastModified(file, now)]
               IN /\ SetStamps(file, Replace(g_config, Some(new)), now)
                  /\ co' = IF co.boot
                           THEN [co EXCEPT !.pc = "init", !.doc = None]
                           ELSE [co EXCEPT !.pc = "reload_ret", !.ret = "loaded",
                                           !.doc = None]
                  /\ UNCHANGED <<writes, g_monitor, heap, gens, thr, sig, proc>>
          ELSE LoadFailed
    /\ UNCHANGED tm

\* ------------------------------------------- init_monitor, free_monitor
\* config.c:413-416: the configurations init_monitor accepts.
ValidForMonitor(cfg) == Len(cfg.ips) > 0

\* config.c:418-446: the Monitor init_monitor builds.
NewMonitor(cfg, g) ==
    [live |-> TRUE, gen |-> g, running |-> FALSE,
     ips |-> [i \in 1..Len(cfg.ips) |-> NewMonitoredIP(cfg.ips[i])]]

\* The call of exit that ends the process when init_monitor returns NULL:
\* ur-ipmon-spec.c:71 at start-up and 101 in a reload.  The name tells why
\* init_monitor returned NULL.
InitExit(boot, why) ==
    IF boot THEN IF why = "invalid" THEN "exit_init_invalid" ELSE "exit_init_nomem"
    ELSE IF why = "invalid" THEN "exit_reinit_invalid" ELSE "exit_reinit_nomem"

\* ur-ipmon-spec.c:67-72 and 98-102: g_monitor = init_monitor(config), and
\* exit(EXIT_FAILURE) when it is NULL: the configuration is not valid for a
\* monitor (config.c:413-416), or malloc fails (config.c:418-432).
InitMonitor ==
    /\ proc = "running"
    /\ co.pc = "init"
    /\ IF ~ValidForMonitor(g_config[1])
       THEN Exit(InitExit(co.boot, "invalid"))
       ELSE \/ /\ \E a \in {x \in Addrs : ~heap[x].live} :
                     /\ heap' = [heap EXCEPT ![a] = NewMonitor(g_config[1], gens + 1)]
                     /\ g_monitor' = a
               /\ gens' = gens + 1
               /\ co' = [co EXCEPT !.pc = "start"]
               /\ UNCHANGED <<file, writes, now, g_config, thr, sig, proc>>
            \/ Exit(InitExit(co.boot, "nomem"))
    /\ UNCHANGED tm

\* config.c:449-462.
FreeMonitor(a) == heap' = [heap EXCEPT ![a] = FreeCell]

\* ------------------------------------------------------ start_monitoring
\* start_monitoring creating a thread for the first active element only.
ActiveFirst(ips) ==
    {i \in 1..Len(ips) : ips[i].is_active /\ \A j \in 1..(i - 1) : ~ips[j].is_active}

\* config.c:478-482: the elements start_monitoring creates a thread for.
Active(ips) == {i \in 1..Len(ips) : ips[i].is_active}

\* config.c:484-494: the thread pthread_create starts with args->monitor = a
\* and args->ip = an element of an array of n; ip is the address of the target
\* it was created for.
NewThread(a, n, ip) ==
    [pc |-> "sleep", mon |-> a, n |-> n, ip |-> ip, timer |-> 0, rt |-> -1, k |-> 0,
     base |-> "UNKNOWN", log |-> "none"]

\* config.c:464-509.  failAt = MaxTargets + 1: every pthread_create succeeds;
\* failAt = 0: malloc of the thread array fails; failAt = i: malloc of the
\* arguments or pthread_create fails for the active element i.
StartMonitoring ==
    /\ proc = "running"
    /\ co.pc = "start"
    /\ LET a == g_monitor
           ips == heap[a].ips
           g == heap[a].gen
       IN \E failAt \in {0, MaxTargets + 1} \cup Active(ips) :
             /\ heap' = [heap EXCEPT ![a].running = TRUE]
             /\ thr' = [thr EXCEPT ![g] =
                          [i \in Idx |-> IF i \in Active(ips) /\ i < failAt
                                         THEN NewThread(a, Len(ips), ips[i].ip_address)
                                         ELSE @[i]]]
             /\ co' = IF failAt = MaxTargets + 1
                      THEN IF co.boot
                           THEN [co EXCEPT !.pc = "sleep", !.boot = FALSE, !.timer = 0,
                                           !.last_age = 0]
                           ELSE EndOfIteration(co)
                      ELSE [co EXCEPT !.pc = "start_failed"]
    /\ UNCHANGED <<file, writes, now, g_config, g_monitor, gens, sig, proc>>
    /\ UNCHANGED tm

\* ur-ipmon-spec.c:75-80 and 103-107: free_monitor(g_monitor); exit(EXIT_FAILURE).
StartFailed ==
    /\ proc = "running"
    /\ co.pc = "start_failed"
    /\ Exit(IF co.boot THEN "exit_start" ELSE "exit_restart")
    /\ UNCHANGED tm

\* ------------------------------------------------------- stop_monitoring
\* config.c:517: monitor->running = false, through a pointer that may dangle.
ClearRunning(a) ==
    IF heap[a].live THEN heap' = [heap EXCEPT ![a].running = FALSE]
    ELSE UNCHANGED heap

\* config.c:520: the grace period stop_monitoring sleeps before it returns.
GracePeriod == STOP_GRACE

\* History for the cancellation claims: the tasks of engine g that are in
\* their interval sleep, with time left to sleep.
Asleep(g) == {i \in Idx : thr[g][i].pc = "sleep" /\ thr[g][i].timer > 0}

\* ur-ipmon-spec.c:96 with config.c:511-520: stop_monitoring up to its sleep.
\* co.asleep keeps the tasks the call found asleep.
StopMonitoring ==
    /\ proc = "running"
    /\ co.pc = "stop"
    /\ ClearRunning(g_monitor)
    /\ co' = [co EXCEPT !.pc = "stop_sleep", !.timer = GracePeriod,
                        !.asleep = Asleep(heap[g_monitor].gen)]
    /\ UNCHANGED <<file, writes, now, g_config, g_monitor, gens, thr, sig, proc>>
    /\ UNCHANGED tm

\* config.c:520-521: sleep(1) is over and stop_monitoring returns.
StopReturns ==
    /\ proc = "running"
    /\ co.pc = "stop_sleep"
    /\ SleepOver(co.timer)
    /\ co' = [co EXCEPT !.pc = "free"]
    /\ UNCHANGED <<file, writes, now, g_config, g_monitor, heap, gens, thr, sig, proc>>
    /\ UNCHANGED tm

\* ur-ipmon-spec.c:97: free_monitor(g_monitor); g_monitor keeps the address.
FreeOld ==
    /\ proc = "running"
    /\ co.pc = "free"
    /\ FreeMonitor(g_monitor)
    /\ co' = [co EXCEPT !.pc = "init", !.asleep = {}]
    /\ UNCHANGED <<file, writes, now, g_config, g_monitor, gens, thr, sig, proc>>
    /\ UNCHANGED tm

\* ------------------------------------- the loop of function_ipmon_single
\* ur-ipmon-spec.c:112-113, 89 and 114: sleep(display_interval) returns (at
\* start-up: the loop is entered); while (g_monitor->running), else
\* exit(EXIT_FAILURE).
LoopTest ==
    /\ proc = "running"
    /\ co.pc = "sleep"
    /\ SleepOver(co.timer)
    /\ IF heap[g_monitor].running
       THEN /\ co' = [co EXCEPT !.pc = "display", !.di = 1]
            /\ UNCHANGED <<file, writes, now, g_config, g_monitor, heap, gens, thr,
                           sig, proc>>
       ELSE Exit("exit_loop")
    /\ UNCHANGED tm

\* config.c:546-568: what display_status prints of one element.
Row(r) ==
    [ip_address |-> r.ip_address, status |-> r.status,
     response_time_ms |-> r.response_time_ms, last_checked |-> r.last_checked]

\* The row display_status prints in its next step.
Printed == Row(heap[g_monitor].ips[co.di])

\* ur-ipmon-spec.c:93: current_time - last_config_check >= config_check_interval.
CheckDue(last_age) == last_age >= CONFIG_CHECK_INTERVAL

\* The Task Manager's checkpoint: it returns when the task is not paused and
\* blocks the caller while it is.
thread_check_pause(paused) == ~paused

\* ur-ipmon-spec.c:90 with config.c:536-571: display_status prints row di;
\* after the last row, ur-ipmon-spec.c:91-93 and 112: the checkpoint
\* thread_check_pause (the step waits while the task is paused), current_time =
\* time(NULL), the test, and the sleep when no check is due.
DisplayRow ==
    /\ proc = "running"
    /\ co.pc = "display"
    /\ co.di = Len(heap[g_monitor].ips) => thread_check_pause(co.paused)
    /\ co' = IF co.di < Len(heap[g_monitor].ips)
             THEN [co EXCEPT !.di = @ + 1]
             ELSE IF CheckDue(co.last_age)
             THEN [co EXCEPT !.pc = "changed", !.di = 0, !.cur_age = 0]
             ELSE [co EXCEPT !.pc = "sleep", !.di = 0, !.timer = DISPLAY_INTERVAL,
                             !.cur_age = 0]
    /\ UNCHANGED <<file, writes, now, g_config, g_monitor, heap, gens, thr, sig, proc>>
    /\ UNCHANGED tm

\* config_has_changed with the comparison of the time stamps off by one.
config_has_changed_ge(c, f) ==
    IF c = None THEN FALSE
    ELSE IF ~f.exists THEN FALSE
    ELSE f.mtime >= c[1].last_modified

\* config.c:214-232.
config_has_changed(c, f) ==
    IF c = None THEN FALSE
    ELSE IF ~f.exists THEN FALSE
    ELSE f.mtime > c[1].last_modified

\* config.c:234-241: reload_config_if_changed up to its call of load_config.
\* History for the reload claims: co.hist is how the latest check ended
\* ("pending" during a check), or "none" when there was no check yet or the
\* file's modification time changed since that check looked at it; co.rep
\* is, during a check, what co.hist was when the check began.
Changed ==
    /\ proc = "running"
    /\ co.pc = "changed"
    /\ co' = IF config_has_changed(g_config, file)
             THEN [co EXCEPT !.pc = "load_read", !.rep = co.hist, !.hist = "pending"]
             ELSE [co EXCEPT !.pc = "reload_ret", !.ret = "unchanged", !.rep = co.hist,
                             !.hist = "pending"]
    /\ UNCHANGED <<file, writes, now, g_config, g_monitor, heap, gens, thr, sig, proc>>
    /\ UNCHANGED tm

\* What reload_config_if_changed returned (config.c:236, 240, 247, 255).
Reloaded(ret) == ret = "loaded"

\* How a check that returned ret is remembered.
Outcome(hist, ret) ==
    IF hist # "pending" THEN "none" ELSE IF ret = "failed" THEN "failed" ELSE "ok"

\* ur-ipmon-spec.c:94-95 and 110-112: the branch on what
\* reload_config_if_changed returned.
ReloadBranch ==
    /\ proc = "running"
    /\ co.pc = "reload_ret"
    /\ LET c == [co EXCEPT !.ret = "none", !.rep = "none",
                           !.hist = Outcome(co.hist, co.ret)]
       IN co' = IF Reloaded(co.ret) THEN [c EXCEPT !.pc = "stop"] ELSE EndOfIteration(c)
    /\ UNCHANGED <<file, writes, now, g_config, g_monitor, heap, gens, thr, sig, proc>>
    /\ UNCHANGED tm

\* ------------------------------------------------------- signal_handler
\* part_002:21-25: stop_monitoring(g_monitor) when g_monitor is not NULL.
SignalArrives ==
    /\ proc = "running"
    /\ sig.pc = "idle"
    /\ IF g_monitor # 0
       THEN /\ ClearRunning(g_monitor)
            /\ sig' = [pc |-> "sleep", timer |-> GracePeriod]
       ELSE /\ sig' = [pc |-> "return", timer |-> 0]
            /\ UNCHANGED heap
    /\ UNCHANGED <<file, writes, now, g_config, g_monitor, gens, thr, co, proc>>
    /\ UNCHANGED tm

\* part_002:26: exit(EXIT_SUCCESS) once stop_monitoring has returned.
SignalExit ==
    /\ proc = "running"
    /\ sig.pc \in {"sleep", "return"}
    /\ SleepOver(sig.timer)
    /\ Exit("exit_signal")
    /\ UNCHANGED tm

\* -------------------------------------------------------- environment
\* The file is read by Changed, LoadRead and LoadStat only (stat, fopen and
\* fread, stat).  A write between two of these steps cannot be told from a
\* write right before the next of them, so the writer acts there.
FileIsRead == co.pc \in {"changed", "load_read", "load_stat"}

\* The external writer replaces the content of the configuration file.
ModifyFile ==
    /\ proc = "running"
    /\ writes < MaxWrites
    /\ FileIsRead
    /\ \E d \in Documents :
          SetStamps([exists |-> TRUE, doc |-> d, mtime |-> now], g_config, now)
    /\ writes' = writes + 1
    /\ co' = [co EXCEPT !.hist = IF file.exists /\ file.mtime = now THEN @ ELSE "none"]
    /\ UNCHANGED <<g_monitor, heap, gens, thr, sig, proc>>
    /\ UNCHANGED tm

\* The external writer removes the configuration file.
DeleteFile ==
    /\ proc = "running"
    /\ writes < MaxWrites
    /\ FileIsRead
    /\ file.exists
    /\ SetStamps([exists |-> FALSE, doc |-> BadDoc, mtime |-> 0], g_config, now)
    /\ writes' = writes + 1
    /\ co' = [co EXCEPT !.hist = "none"]
    /\ UNCHANGED <<g_monitor, heap, gens, thr, sig, proc>>
    /\ UNCHANGED tm

\* The Task Manager's pause(id) for the task that runs function_ipmon_single:
\* it marks the task PAUSED and returns.
Pause ==
    /\ proc = "running"
    /\ ~co.paused
    /\ co' = [co EXCEPT !.paused = TRUE]
    /\ UNCHANGED <<file, writes, now, g_config, g_monitor, heap, gens, thr, sig, proc>>
    /\ UNCHANGED tm

\* The Task Manager's resume(id): the task is RUNNING again.
Resume ==
    /\ proc = "running"
    /\ co.paused
    /\ co' = [co EXCEPT !.paused = FALSE]
    /\ UNCHANGED <<file, writes, now, g_config, g_monitor, heap, gens, thr, sig, proc>>
    /\ UNCHANGED tm

\* The documents a correction puts into the file: registries with targets.
Loadable == {DocAB, DocOff}
\* The external writer corrects a configuration file that cannot be loaded
\* (it is missing or does not parse).  History: co.hist becomes "corrected"
\* when the latest check had ended in a failed load.
CorrectFile ==
    /\ proc = "running"
    /\ FileIsRead
    /\ ~CanRead(file)
    /\ \E d \in Loadable :
          SetStamps([exists |-> TRUE, doc |-> d, mtime |-> now], g_config, now)
    /\ co' = [co EXCEPT !.hist = IF @ = "failed" THEN "corrected" ELSE "none"]
    /\ UNCHANGED <<writes, g_monitor, heap, gens, thr, sig, proc>>
    /\ UNCHANGED tm

\* ------------------------------------------------- tasks and their ids
\* How many tasks are created, and the argument values they are created with.
MaxTasks == 3
TaskArgs == {"x", "y"}

\* ur-ipmon-spec.c:36-54 (and 166-185): thread_id starts at 0; the ids are
\* scanned in the order thread_get_all_ids gives them and the first one whose
\* info.arg equals args is taken; with no such entry thread_id stays 0.
RecoverId(entries, arg) ==
    LET matches == {j \in 1..Len(entries) : entries[j].arg = arg}
    IN IF matches = {} THEN 0
       ELSE entries[CHOOSE j \in matches : \A m \in matches : j <= m].id

\* The Task Manager's create(entryPoint, argument): the task gets the next id,
\* is registered with its argument and starts at the top of its body.
Create ==
    /\ proc = "running"
    /\ Len(tm) < MaxTasks
    /\ \E a \in TaskArgs :
          tm' = Append(tm, [id |-> Len(tm) + 1, arg |-> a, pc |-> "scan", thread_id |-> 0])
    /\ UNCHANGED <<file, writes, now, g_config, g_monitor, heap, gens, thr, co, sig, proc>>

\* ur-ipmon-spec.c:36-54: task n recovers its id and goes on to its loop.
Scan ==
    /\ proc = "running"
    /\ \E n \in 1..Len(tm) :
          /\ tm[n].pc = "scan"
          /\ tm' = [tm EXCEPT ![n].pc = "loop", ![n].thread_id = RecoverId(tm, tm[n].arg)]
    /\ UNCHANGED <<file, writes, now, g_config, g_monitor, heap, gens, thr, co, sig, proc>>

\* One second passes: every sleeper has one second less to sleep, and the
\* two time stamps of the reload loop are one second older (current_time is
\* in use between ur-ipmon-spec.c:92 and 110 only).  The steps of the reload
\* loop between two of its sleeps take less than a second together and the
\* loop is scheduled in the second its sleep ends, so the clock advances
\* while the loop or the signal handler has time left to sleep, or the loop
\* waits in the checkpoint of a paused task.
Older(age) == Min(age + 1, CONFIG_CHECK_INTERVAL)
Less(timer) == IF timer > 0 THEN timer - 1 ELSE 0
Blocked == co.pc = "display" /\ co.di = Len(heap[g_monitor].ips) /\ co.paused
Sleeping ==
    \/ co.pc \in {"sleep", "stop_sleep"} /\ co.timer > 0
    \/ Blocked
    \/ sig.pc = "sleep" /\ sig.timer > 0
Tick ==
    /\ proc = "running"
    /\ Sleeping
    /\ SetStamps(file, g_config, now + 1)
    /\ thr' = [g \in Gens |-> [i \in Idx |-> [thr[g][i] EXCEPT !.timer = Less(@)]]]
    /\ co' = [co EXCEPT !.timer = Less(@), !.last_age = Older(@),
                        !.cur_age = IF co.pc = "stop_sleep" THEN Older(@) ELSE @]
    /\ sig' = [sig EXCEPT !.timer = Less(@)]
    /\ UNCHANGED <<writes, g_monitor, heap, gens, proc>>
    /\ UNCHANGED tm

Coordinator ==
    \/ LoadRead
    \/ LoadStat
    \/ InitMonitor
    \/ StartMonitoring
    \/ StartFailed
    \/ LoopTest
    \/ DisplayRow
    \/ Changed
    \/ ReloadBranch
    \/ StopMonitoring
    \/ StopReturns
    \/ FreeOld

Environment ==
    \/ ModifyFile
    \/ DeleteFile
    \/ Tick

Next ==
    \/ \E g \in Gens, i \in Idx : ThreadStep(g, i)
    \/ Coordinator
    \/ Environment

\* The same program with a SIGINT delivered at some moment.
NextSignal ==
    \/ Next
    \/ SignalArrives
    \/ SignalExit

\* The program while nobody touches the configuration file: the engine
\* built at start-up is never stopped or replaced.
SteadyLoop ==
    \/ LoadRead
    \/ LoadStat
    \/ InitMonitor
    \/ StartMonitoring
    \/ StartFailed
    \/ LoopTest
    \/ DisplayRow
    \/ Changed
    \/ ReloadBranch
    \/ Tick

NextSteady ==
    \/ \E g \in Gens, i \in Idx : ThreadStep(g, i)
    \/ SteadyLoop

\* The same with the Task Manager pausing and resuming the monitoring task.
NextPause ==
    \/ NextSteady
    \/ Pause
    \/ Resume

\* The undisturbed engine and a SIGINT delivered at some moment.
NextShutdown ==
    \/ NextSteady
    \/ SignalArrives
    \/ SignalExit

\* The targets whose call of check_ip never returns.
Hanging == {1}
\* The same where the polling task of a hanging target enters check_ip and
\* stays there.
NextHang ==
    \/ \E g \in Gens, i \in Idx \ Hanging : ThreadStep(g, i)
    \/ \E g \in Gens, i \in Hanging : ThreadTest(g, i)
    \/ SteadyLoop
    \/ SignalArrives
    \/ SignalExit

\* Start-up up to init_monitor: load_config and init_monitor applied to a
\* document.
NextLoad ==
    \/ LoadRead
    \/ LoadStat
    \/ InitMonitor

\* Start-up up to the return of start_monitoring, and the polling tasks it
\* created.
NextStart ==
    \/ NextLoad
    \/ StartMonitoring
    \/ StartFailed
    \/ \E g \in Gens, i \in Idx : ThreadStep(g, i)

\* The program with a writer that also corrects a file that cannot be loaded.
NextCorrect ==
    \/ Next
    \/ CorrectFile

\* Tasks being created and recovering their ids.
NextTasks ==
    \/ Create
    \/ Scan

\* The scheduler runs every thread that can take a step, and time passes.
LoopFair == WF_vars(LoopTest \/ DisplayRow \/ Changed \/ ReloadBranch) /\ WF_vars(Tick)
ThreadFair(g, i) == WF_vars(ThreadStep(g, i))

Spec == Init /\ [][Next]_vars
SpecPause == Init /\ [][NextPause]_vars
SpecShutdown == Init /\ [][NextShutdown]_vars
SpecLoad == InitWith(LoadDocuments) /\ [][NextLoad]_vars
SpecTasks == Init /\ [][NextTasks]_vars
SpecCorrect == InitWith({DocAB}) /\ [][NextCorrect]_vars
SpecStart == InitWith(LoadDocuments) /\ [][NextStart]_vars

\* Start-up and the signal handler are scheduled as well.
BootFair == WF_vars(LoadRead \/ LoadStat \/ InitMonitor \/ StartMonitoring \/ StartFailed)
SignalFair == WF_vars(SignalExit)
\* Two active targets; the probe of the first never returns, everything
\* else is scheduled fairly.
SpecHang ==
    /\ InitWith({DocTwo})
    /\ [][NextHang]_vars
    /\ BootFair /\ LoopFair /\ SignalFair
    /\ \A g \in Gens, i \in Idx \ Hanging : ThreadFair(g, i)
\* The undisturbed engine, with every probe returning and every polling task
\* and the reload loop scheduled fairly.
SpecSteadyFair ==
    Init /\ [][NextSteady]_vars /\ LoopFair /\ \A g \in Gens, i \in Idx : ThreadFair(g, i)
SpecSignal == Init /\ [][NextSignal]_vars

\* ---------------------------------------------------------- properties
\* The task (g, i) still has the Status Record that was created for it: the
\* engine g is live, at the address the task holds.
HasRecord(g, i) ==
    /\ thr[g][i].pc # "none"
    /\ heap[thr[g][i].mon].live
    /\ heap[thr[g][i].mon].gen = g
Rec(g, i) == heap[thr[g][i].mon].ips[i]
\* The positions of a task between two polling iterations.
Between == {"sleep", "probe", "done"}
\* The positions of a task at which its next step writes to its record.
WritePcs == {"w_result", "w_up", "w_reset", "w_inc", "w_down"}
\* The engine g_monitor designates.
Engine == heap[g_monitor].gen

\* C1: between two iterations of a polling task that has seen k consecutive
\* failed probes, the failure counter of its record is k, the status is what
\* it was before these failures while k < 3, and DOWN once k has reached 3.
C1_FailureCount ==
    \A g \in Gens, i \in Idx :
        HasRecord(g, i) /\ thr[g][i].pc \in Between =>
            /\ Rec(g, i).failures = thr[g][i].k
            /\ thr[g][i].k < FAILED_THRESHOLD => Rec(g, i).status = thr[g][i].base
            /\ thr[g][i].k >= FAILED_THRESHOLD => Rec(g, i).status = "DOWN"

\* C2: when a polling task has applied a successful probe (its write of
\* failures = 0 ends the iteration), its record has status UP and failure
\* counter 0.
C2_SuccessResets ==
    [][\A g \in Gens, i \in Idx :
          HasRecord(g, i) /\ thr[g][i].pc = "w_reset" /\ thr'[g][i].pc = "sleep" =>
              /\ heap'[thr[g][i].mon].ips[i].status = "UP"
              /\ heap'[thr[g][i].mon].ips[i].failures = 0]_vars

\* C3: in every state, every Status Record of a live engine that is DOWN has
\* a failure counter of at least 3.
C3_DownNeedsThreshold ==
    \A a \in Addrs :
        heap[a].live =>
            \A i \in 1..Len(heap[a].ips) :
                heap[a].ips[i].status = "DOWN" => heap[a].ips[i].failures >= FAILED_THRESHOLD

\* C4: the row display_status prints never shows the latency of a successful
\* probe next to a status that is not yet UP: latency, last-checked time and
\* status of a printed row belong to the same probe.
C4_RowIsAtomic ==
    co.pc = "display" => (Printed.response_time_ms >= 0 => Printed.status = "UP")

\* C5: once stop_monitoring has returned for the engine (and until the engine
\* is freed), no polling task of that engine takes a step that writes to its
\* Status Record.
C5_NoWriteAfterStop ==
    [][co.pc = "free" =>
          \A i \in Idx : thr[Engine][i].pc \in WritePcs => thr'[Engine][i] = thr[Engine][i]]_vars

\* C6: every polling task that was in its interval sleep when stop_monitoring
\* was called has left its loop when stop_monitoring returns.
C6_SleepIsCancelled ==
    co.pc = "free" => \A i \in co.asleep : thr[Engine][i].pc = "done"

\* C7: in a reload whose load fails (the file cannot be read or parsed, or
\* load_config gave up), every step of the coordinator up to the end of the
\* loop iteration leaves g_monitor, the engine's memory, the polling tasks and
\* the stored registry as they are, and the coordinator goes on to its sleep
\* without calling stop_monitoring.
C7_FailedReloadKeepsEngine ==
    [][(/\ ~co.boot
        /\ \/ co.pc = "load_read" /\ ~CanRead(file)
           \/ co.pc = "reload_ret" /\ co.ret = "failed"
        /\ co'.pc # co.pc) =>
          /\ co'.pc \in {"reload_ret", "sleep"}
          /\ co.pc = "load_read" => co'.ret = "failed"
          /\ g_monitor' = g_monitor
          /\ heap' = heap
          /\ thr' = thr
          /\ g_config' = g_config
          /\ proc' = proc]_vars
\* A reload has failed while the engine runs with a polling task.
C7_Witness ==
    /\ co.pc = "reload_ret"
    /\ co.ret = "failed"
    /\ heap[g_monitor].running
    /\ \E i \in Idx : thr[Engine][i].pc \in WritePcs

\* C8: the process never exits because init_monitor or start_monitoring
\* failed in a reload.
C8_ReloadFailureNotFatal ==
    proc \notin {"exit_reinit_invalid", "exit_reinit_nomem", "exit_restart"}

\* C9: the process never exits because the registry an engine is to be built
\* from has no target that init_monitor accepts.
C9_NoTargetsNotFatal ==
    proc \notin {"exit_init_invalid", "exit_reinit_invalid"}

\* C10 as stated: at a check that finds the file's modification time as the
\* previous check found it, reload_config_if_changed does not load a new
\* registry (and so the engine is not replaced).
C10_SameVersionNoReload ==
    co.rep # "none" => ~(co.pc = "reload_ret" /\ co.ret = "loaded")

\* C10 as amended: at a check that finds the file's modification time as the
\* previous check found it, where the previous check did not end in a failed
\* load, reload_config_if_changed returns false without loading anything; a
\* successful reload is not repeated at the next check.
C10_SameVersionNoReloadUnlessFailed ==
    co.rep = "ok" => co.pc = "reload_ret" /\ co.ret = "unchanged"
\* The check after a successful reload, with the file not modified again.
C10_Witness ==
    /\ co.rep = "ok"
    /\ co.pc = "reload_ret"
    /\ gens = 2
    /\ heap[g_monitor].running

\* A polling task that exists and has not left its loop.
Alive(t) == t.pc \notin {"none", "done"}
\* The live polling tasks, of any engine, that were created for address ip.
TasksOf(ip) == {gi \in Gens \X Idx : Alive(thr[gi[1]][gi[2]]) /\ thr[gi[1]][gi[2]].ip = ip}
\* The engine in effect has been started and the reload loop runs with it.
EngineInEffect ==
    /\ proc = "running"
    /\ ~co.boot
    /\ co.pc \in {"sleep", "display", "changed", "load_read", "load_stat", "reload_ret"}
\* A Status Record as init_monitor leaves it.
Untouched(r) ==
    /\ r.status = "UNKNOWN"
    /\ r.failures = 0
    /\ r.response_time_ms = -1
    /\ r.last_checked = 0

\* C11: when a reload has started the new engine (start_monitoring returns
\* to the reload loop), the Status Record of every active target is UNKNOWN
\* with failure counter 0 and its polling task is a newly created one.
C11_ReloadReplacesAll ==
    [][~co.boot /\ co.pc = "start" /\ co'.pc = "sleep" =>
          \A i \in Active(heap'[g_monitor].ips) :
              /\ heap'[g_monitor].ips[i].status = "UNKNOWN"
              /\ heap'[g_monitor].ips[i].failures = 0
              /\ thr'[Engine][i].pc = "sleep"
              /\ thr'[Engine][i].k = 0]_vars

\* C12: while the reload loop runs with a started engine, every active target
\* of that engine has exactly one live polling task, of whatever engine, and
\* every inactive target has none.
C12_OneTaskPerActiveTarget ==
    EngineInEffect =>
        \A i \in 1..Len(heap[g_monitor].ips) :
            Cardinality(TasksOf(heap[g_monitor].ips[i].ip_address)) =
                IF heap[g_monitor].ips[i].is_active THEN 1 ELSE 0

\* C14: the Status Record of an inactive target of a live engine is as
\* init_monitor left it, and the engine has no polling task for it.
C14_InactiveUntouched ==
    \A a \in Addrs :
        heap[a].live =>
            \A i \in 1..Len(heap[a].ips) :
                ~heap[a].ips[i].is_active =>
                    Untouched(heap[a].ips[i]) /\ thr[heap[a].gen][i].pc = "none"

\* C16: a step that changes a Status Record of an engine is a step of the
\* polling task that this engine created for the record's address.
C16_OnlyOwnerWrites ==
    [][\A a \in Addrs :
          heap[a].live /\ heap'[a].live /\ heap'[a].gen = heap[a].gen =>
              \A j \in 1..Len(heap[a].ips) :
                  heap'[a].ips[j] # heap[a].ips[j] =>
                      /\ thr'[heap[a].gen][j] # thr[heap[a].gen][j]
                      /\ thr[heap[a].gen][j].ip = heap[a].ips[j].ip_address]_vars

\* C13: in an engine that is started and never stopped or replaced, with
\* every probe returning and every task scheduled fairly, the Status Record
\* of every active target eventually has a status other than UNKNOWN.
C13_EventuallyKnown ==
    \A i \in Idx :
        (EngineInEffect /\ i \in Active(heap[g_monitor].ips))
            ~> (EngineInEffect /\ heap[g_monitor].ips[i].status # "UNKNOWN")
\* An active target has gone DOWN after three failures without any success.
C13_Witness ==
    /\ EngineInEffect
    /\ \E i \in Active(heap[g_monitor].ips) :
          /\ heap[g_monitor].ips[i].status = "DOWN"
          /\ thr[Engine][i].k = FAILED_THRESHOLD
          /\ thr[Engine][i].base = "UNKNOWN"

\* C15: while the task that runs function_ipmon_single is paused and waits
\* in its checkpoint, no polling task issues a further probe (a probe is
\* issued when a task leaves its sleep for check_ip).
C15_NoProbeWhilePaused ==
    [][Blocked /\ co'.paused =>
          \A g \in Gens, i \in Idx :
              ~(thr[g][i].pc = "sleep" /\ thr'[g][i].pc = "probe")]_vars

\* C17: while the probe of one target hangs for ever, the task of every other active target of the engine goes on to
\* apply a further probe result to its record unless a shutdown was
\* requested, start_monitoring returns, and stop_monitoring returns.
Others(ips) == {i \in 1..Len(ips) : ips[i].is_active} \ Hanging
C17_IndependentLiveness ==
    /\ \A i \in Idx :
          (EngineInEffect /\ sig.pc = "idle" /\ i \in Others(heap[g_monitor].ips))
              ~> \/ /\ EngineInEffect
                    /\ i \in Others(heap[g_monitor].ips)
                    /\ thr[Engine][i].pc \in {"w_up", "w_inc"}
                 \/ sig.pc # "idle"
                 \/ proc # "running"
    /\ (proc = "running" /\ co.pc = "start") ~> (co.pc # "start")
    /\ (proc = "running" /\ sig.pc = "sleep") ~> (proc # "running")
\* The first target's probe hangs while the second target has gone DOWN.
C17_Witness ==
    /\ EngineInEffect
    /\ thr[Engine][1].pc = "probe"
    /\ thr[Engine][1].k = 0
    /\ heap[g_monitor].ips[1].status = "UNKNOWN"
    /\ heap[g_monitor].ips[2].status = "DOWN"

\* The loop of function_ipmon_single is still running: the task is in the
\* loop body or in the reload it performs.
LoopRuns ==
    /\ proc = "running"
    /\ ~co.boot
    /\ co.pc \in {"sleep", "display", "changed", "load_read", "load_stat", "reload_ret",
                  "stop", "stop_sleep", "free", "init", "start"}

\* C18: on a shutdown request the reload loop has stopped before the engine
\* is stopped with stop_monitoring, and it has stopped before the process
\* exits.
C18_ShutdownOrder ==
    [][/\ (sig.pc = "idle" /\ sig'.pc = "sleep" => ~LoopRuns)
       /\ (proc' = "exit_signal" => ~LoopRuns)]_vars

\* C19: every target of a registry returned by load_config has a polling
\* interval above 0 and a probe timeout above 0.
C19_PositiveIntervalAndTimeout ==
    g_config # None =>
        \A i \in 1..Len(g_config[1].ips) :
            g_config[1].ips[i].interval > 0 /\ g_config[1].ips[i].timeout > 0

\* No two elements of ips have the same address.
UniqueAddresses(ips) ==
    \A i, j \in 1..Len(ips) : ips[i].ip_address = ips[j].ip_address => i = j

\* C20: no registry returned by load_config and no Status Registry built by
\* init_monitor holds two targets with the same address.
C20_AddressesUnique ==
    /\ g_config # None => UniqueAddresses(g_config[1].ips)
    /\ \A a \in Addrs : heap[a].live => UniqueAddresses(heap[a].ips)

\* init_monitor has returned a Monitor and start_monitoring was not called yet.
Initialised == proc = "running" /\ co.pc = "start"

\* C21: the Status Registry init_monitor returns for a registry of N > 0
\* targets has N records in the registry's order, one per target whether
\* active or not, with address, interval, timeout and active flag copied,
\* status UNKNOWN, no failures, latency -1 and last-checked 0, and the
\* engine's running flag is false until start_monitoring sets it.
C21_InitMonitorResult ==
    Initialised =>
        LET cfg == g_config[1].ips
            recs == heap[g_monitor].ips
        IN /\ Len(cfg) > 0
           /\ Len(recs) = Len(cfg)
           /\ ~heap[g_monitor].running
           /\ \A i \in 1..Len(cfg) :
                 /\ recs[i].ip_address = cfg[i].ip_address
                 /\ recs[i].interval = cfg[i].interval
                 /\ recs[i].timeout = cfg[i].timeout
                 /\ recs[i].is_active = cfg[i].is_active
                 /\ Untouched(recs[i])
\* init_monitor has built two records, the second one for an inactive target
\* with an interval of its own.
C21_Witness ==
    /\ Initialised
    /\ Len(heap[g_monitor].ips) = 2
    /\ heap[g_monitor].ips[1].is_active
    /\ ~heap[g_monitor].ips[2].is_active
    /\ heap[g_monitor].ips[2].interval # DEFAULT_INTERVAL

\* A member of the settings section, or the built-in value when the section
\* or the member is absent.
SettingOr(settings, member, builtin) ==
    IF settings = None THEN builtin
    ELSE IF settings[1][member] = None THEN builtin
    ELSE settings[1][member][1]

\* C22: in a registry load_config returns, the registry-wide defaults are
\* the values of the settings section where present and 5 s / 1000 ms
\* otherwise; a target that omits interval, timeout or active (a plain string
\* omits all three) has the registry-wide defaults and active = true, and a
\* value the target states is kept.
C22_RegistryDefaults ==
    g_config # None =>
        LET items == file.doc.ip_addresses[1]
            c == g_config[1]
        IN /\ c.default_interval =
                  SettingOr(file.doc.settings, "default_interval", DEFAULT_INTERVAL)
           /\ c.default_timeout =
                  SettingOr(file.doc.settings, "default_timeout", DEFAULT_TIMEOUT)
           /\ Len(c.ips) = Len(items)
           /\ \A i \in 1..Len(items) :
                 /\ c.ips[i].interval =
                       IF items[i].interval = None THEN c.default_interval
                       ELSE items[i].interval[1]
                 /\ c.ips[i].timeout =
                       IF items[i].timeout = None THEN c.default_timeout
                       ELSE items[i].timeout[1]
                 /\ c.ips[i].is_active =
                       IF items[i].active = None THEN TRUE ELSE items[i].active[1]
\* A registry whose settings give a default timeout only, with a target that
\* states its interval and its active flag and omits its timeout.
C22_Witness ==
    /\ g_config # None
    /\ g_config[1].default_interval = DEFAULT_INTERVAL
    /\ g_config[1].default_timeout # DEFAULT_TIMEOUT
    /\ \E i \in 1..Len(g_config[1].ips) :
          /\ g_config[1].ips[i].timeout = g_config[1].default_timeout
          /\ g_config[1].ips[i].interval # DEFAULT_INTERVAL
          /\ ~g_config[1].ips[i].is_active

\* The step changes the status of the record task t writes to from another
\* status to st.
StatusBecomes(t, i, st) ==
    /\ RecValid(t)
    /\ heap[t.mon].ips[i].status # st
    /\ heap'[t.mon].ips[i].status = st

\* C23: a polling task logs "is UP" on a probe exactly when that probe changes
\* the record's status to UP from another status, and "is DOWN" exactly when
\* it changes the status to DOWN from another status.
C23_LogOnlyOnTransition ==
    [][\A g \in Gens, i \in Idx :
          /\ (thr[g][i].pc = "w_up" /\ thr'[g][i].pc = "w_reset") =>
                (thr'[g][i].log = "up" <=> StatusBecomes(thr[g][i], i, "UP"))
          /\ (thr[g][i].pc = "w_down" /\ thr'[g][i].pc = "sleep") =>
                (thr'[g][i].log = "down" <=> StatusBecomes(thr[g][i], i, "DOWN"))]_vars

\* C24: the id a task body recovers by scanning the Task Manager for its
\* argument is the id create assigned to that task, and is never 0.
C24_OwnIdRecovered ==
    \A n \in 1..Len(tm) : tm[n].pc = "loop" => tm[n].thread_id = tm[n].id

\* C25: a polling task takes a step that reads or writes the running flag or
\* its Status Record (the test of the loop condition, or one of its writes)
\* only while its engine has not been freed.
C25_NoUseAfterFree ==
    [][proc' = "running" =>
          \A g \in Gens, i \in Idx :
              (/\ thr[g][i].pc \in WritePcs \cup {"sleep"}
               /\ thr'[g][i].pc # thr[g][i].pc) => HasRecord(g, i)]_vars

\* C26: at every point of the run, where a signal may arrive, g_monitor is
\* NULL or designates an engine that has not been freed.
C26_MonitorPointerValid ==
    proc = "running" => g_monitor = 0 \/ heap[g_monitor].live

\* C27: when start_monitoring has returned -1, none of the polling tasks it
\* created is left running.
C27_NoTaskAfterFailedStart ==
    (proc = "running" /\ co.pc = "start_failed") =>
        \A i \in Idx : ~Alive(thr[Engine][i])

\* The step is the return of a load_config that succeeded.
LoadReturns ==
    /\ co.pc = "load_stat"
    /\ proc' = "running"
    /\ co'.pc = "init" \/ (co'.pc = "reload_ret" /\ co'.ret = "loaded")

\* C28: the version marker load_config stores is the one of the content it
\* parsed: when load_config takes the file's modification time, the file
\* still holds the content that was read.
C28_MarkerOfContentRead ==
    [][LoadReturns /\ file.exists => file.doc = co.doc[1]]_vars

C30_NeverBackToUnknown ==
    [][\A a \in Addrs :
          heap[a].live /\ heap'[a].live /\ heap'[a].gen = heap[a].gen =>
              \A i \in 1..Len(heap[a].ips) :
                  heap'[a].ips[i].status # heap[a].ips[i].status =>
                      heap'[a].ips[i].status \in {"UP", "DOWN"}]_vars
\* A record that is DOWN after three failures, whose task is about to set it
\* UP after a successful probe.
C30_Witness ==
    /\ EngineInEffect
    /\ \E i \in Active(heap[g_monitor].ips) :
          /\ heap[g_monitor].ips[i].status = "DOWN"
          /\ thr[Engine][i].pc = "w_up"

====
